---- MODULE Spec2Model ----
(***************************************************************************)
(* Model of two groups of HTTP route handlers:                             *)
(*                                                                         *)
(*  - the rule-status lookup  GET <rules>/_find_statuses                   *)
(*    (find_rules_status_route.ts): an async reduce over query.ids that    *)
(*    starts one savedObjectsClient.find per element, chains the           *)
(*    callbacks through the accumulator promise and answers when the last  *)
(*    promise of the chain settles;                                        *)
(*  - the three annotation routes (annotations.ts): search, upsert and     *)
(*    delete, each a try/catch around its delegates.                       *)
(*                                                                         *)
(* One step of the model is one turn of the event loop: the arrival of a   *)
(* request or the completion of one external call, followed by every       *)
(* continuation that this completion makes runnable.                       *)
(***************************************************************************)
EXTENDS Integers, Sequences, FiniteSets, TLC

VARIABLES
    ids,          \* query.ids of the lookup request
    alertsClient, \* whether getClients returned an alertsClient
    store,        \* status saved objects: alertId -> set of statusDate
    writes,       \* number of status records written since the request began
    pc,           \* "idle" | "awaiting" | "done" : position of the lookup handler
    calls,        \* the `search` argument of every savedObjectsClient.find issued
    fetch,        \* per element of query.ids: the state of its find promise
    acc,          \* acc[i]: the promise returned by the i-th reduce callback
    response,     \* what the lookup handler returned to the framework
    aPc,          \* "idle" | "checking" | "calling" | "done" : annotation handler
    aReq,         \* the annotation request being handled
    aSteps,       \* outcome of each step of the annotation handler so far
    aCalls,       \* invocations of the annotation service
    aResponses    \* responses produced for the annotation request

ruleVars == <<ids, alertsClient, store, writes, pc, calls, fetch, acc, response>>
annVars == <<aPc, aReq, aSteps, aCalls, aResponses>>
vars == <<ruleVars, annVars>>

(***************************************************************************)
(* Bounds                                                                  *)
(***************************************************************************)
MaxIds == 3        \* longest query.ids
MaxRecords == 7    \* largest number of status records of one rule at the start
MaxWrites == 1     \* status records written while the request is in flight

RuleIds == {"rule-1", "rule-2"}

RECURSIVE SeqsUpTo(_, _)
SeqsUpTo(S, n) ==
    IF n = 0 THEN {<<>>}
    ELSE LET shorter == SeqsUpTo(S, n - 1)
         IN shorter \cup {Append(s, x) : s \in {t \in shorter : Len(t) = n - 1}, x \in S}

Range(s) == {s[i] : i \in DOMAIN s}

\* Errors the saved-objects client can reject with: some carry a statusCode,
\* some (a plain Error) do not.
StoreErrors ==
    { [message |-> "Not Found", statusCode |-> 404],
      [message |-> "Forbidden", statusCode |-> 403],
      [message |-> "socket hang up"] }

(***************************************************************************)
(* JavaScript values                                                       *)
(***************************************************************************)
Undefined == [isUndefined |-> TRUE]
Null == [isNull |-> TRUE]

(***************************************************************************)
(* The saved-objects store                                                 *)
(***************************************************************************)
RECURSIVE SortDesc(_)
SortDesc(S) ==
    IF S = {} THEN <<>>
    ELSE LET m == CHOOSE x \in S : \A y \in S : y <= x
         IN <<m>> \o SortDesc(S \ {m})

Take(s, n) == SubSeq(s, 1, IF Len(s) < n THEN Len(s) ELSE n)

\* savedObjectsClient.find({perPage, sortField: 'statusDate', sortOrder: 'desc',
\* search, searchFields: ['alertId']}): the first page of the rule's status
\* records, newest first.
SavedObjectsFind(st, perPageArg, search) ==
    LET sorted == SortDesc(st[search])
        page == Take(sorted, perPageArg)
    IN [saved_objects |->
          [k \in 1..Len(page) |->
              [attributes |-> [alertId |-> search, statusDate |-> page[k]]]]]

perPage == 6

\* the find call of the reduce callback
find(st, id) == SavedObjectsFind(st, perPage, id)

(***************************************************************************)
(* utils                                                                   *)
(***************************************************************************)
\* convertToSnakeCase: null for a missing object, else the object with its
\* keys in snake case.
convertToSnakeCase(obj) ==
    IF obj = Undefined \/ obj = Null THEN Null
    ELSE [alert_id |-> obj.alertId, status_date |-> obj.statusDate]

\* transformError: message and status code of an error; an error without a
\* statusCode is a 500.
transformError(err) ==
    [message |-> err.message,
     statusCode |-> IF "statusCode" \in DOMAIN err THEN err.statusCode ELSE 500]

(***************************************************************************)
(* Promises                                                                *)
(***************************************************************************)
Pending == [st |-> "pending"]
Fulfilled(v) == [st |-> "fulfilled", value |-> v]
Rejected(e) == [st |-> "rejected", err |-> e]

EmptyMap == <<>>

(***************************************************************************)
(* The reduce callback                                                     *)
(***************************************************************************)
\* saved_objects[0]?.attributes
firstAttributes(found) ==
    IF Len(found.saved_objects) >= 1 THEN found.saved_objects[1].attributes
    ELSE Undefined

\* saved_objects.slice(1)
slice1(s) == IF Len(s) <= 1 THEN <<>> ELSE SubSeq(s, 2, Len(s))

\* variant: failures built without slice(1)
statusEntryKeepAll(found) ==
    [current_status |-> convertToSnakeCase(firstAttributes(found)),
     failures |-> [k \in DOMAIN found.saved_objects |->
                     convertToSnakeCase(found.saved_objects[k].attributes)]]

\* { current_status: currentStatus, failures }
statusEntry(found) ==
    [current_status |-> convertToSnakeCase(firstAttributes(found)),
     failures |-> [k \in DOMAIN slice1(found.saved_objects) |->
                     convertToSnakeCase(slice1(found.saved_objects)[k].attributes)]]

\* variant: { [id]: entry, ...accumulated }
spreadFirstWins(accumulated, id, entry) == accumulated @@ (id :> entry)

\* variant: the accumulated object is not spread
spreadDropsAccumulated(accumulated, id, entry) == (id :> entry)

\* { ...accumulated, [id]: entry }
spread(accumulated, id, entry) == (id :> entry) @@ accumulated

\* variant: the accumulator is read without being awaited
callbackNoAwaitAcc(accP, id, f) ==
    IF f.st = "pending" THEN Pending
    ELSE IF f.st = "rejected" THEN Rejected(f.err)
    ELSE IF accP.st = "pending"
         THEN Fulfilled(spread(EmptyMap, id, statusEntry(f.value)))
    ELSE IF accP.st = "rejected" THEN Rejected(accP.err)
    ELSE Fulfilled(spread(accP.value, id, statusEntry(f.value)))

\* variant: an id without records is skipped
callbackSkipsEmpty(accP, id, f) ==
    IF f.st = "pending" THEN Pending
    ELSE IF f.st = "rejected" THEN Rejected(f.err)
    ELSE IF accP.st = "pending" THEN Pending
    ELSE IF accP.st = "rejected" THEN Rejected(accP.err)
    ELSE IF f.value.saved_objects = <<>> THEN Fulfilled(accP.value)
    ELSE Fulfilled(spread(accP.value, id, statusEntry(f.value)))

\* variant: the accumulator is awaited before the find
callbackAwaitAccFirst(accP, id, f) ==
    IF accP.st = "pending" THEN Pending
    ELSE IF accP.st = "rejected" THEN Rejected(accP.err)
    ELSE IF f.st = "pending" THEN Pending
    ELSE IF f.st = "rejected" THEN Rejected(f.err)
    ELSE Fulfilled(spread(accP.value, id, statusEntry(f.value)))

\* The promise an invocation of the callback has returned, given the state of
\* its own find promise f and of the accumulator promise accP it was handed:
\* it awaits the find first, then the accumulator, then builds the object.
callback(accP, id, f) ==
    IF f.st = "pending" THEN Pending
    ELSE IF f.st = "rejected" THEN Rejected(f.err)
    ELSE IF accP.st = "pending" THEN Pending
    ELSE IF accP.st = "rejected" THEN Rejected(accP.err)
    ELSE Fulfilled(spread(accP.value, id, statusEntry(f.value)))

\* The chain of promises after the continuations made runnable by the new
\* state of the find promises have run; a settled promise stays as it is.
RECURSIVE settle(_, _, _, _)
settle(accOld, idSeq, fetchNew, i) ==
    IF accOld[i].st # "pending" THEN accOld[i]
    ELSE IF i = 0 THEN accOld[0]
    ELSE callback(settle(accOld, idSeq, fetchNew, i - 1), idSeq[i], fetchNew[i])

drain(accOld, idSeq, fetchNew) ==
    [i \in 0..Len(idSeq) |-> settle(accOld, idSeq, fetchNew, i)]

(***************************************************************************)
(* The handler's responses                                                 *)
(***************************************************************************)
NoResponse == [kind |-> "none"]

\* headers.response().code(404)
notFoundResponse == [kind |-> "empty", code |-> 404]

\* return statuses
statusesResponse(statuses) == [kind |-> "ok", code |-> 200, body |-> statuses]

\* variant: .code(500) whatever the error
errorResponseFixedCode(err) ==
    [kind |-> "error",
     body |-> [message |-> transformError(err).message,
               status_code |-> transformError(err).statusCode],
     code |-> 500]

\* the catch block
errorResponse(err) ==
    [kind |-> "error",
     body |-> [message |-> transformError(err).message,
               status_code |-> transformError(err).statusCode],
     code |-> transformError(err).statusCode]

\* `await` of the reduce result inside try/catch
awaitStatuses(p, old) ==
    IF old # NoResponse THEN old
    ELSE IF p.st = "fulfilled" THEN statusesResponse(p.value)
    ELSE IF p.st = "rejected" THEN errorResponse(p.err)
    ELSE NoResponse

(***************************************************************************)
(* Rule-status lookup: state machine                                       *)
(***************************************************************************)
InitCounts == {0, 1, 3, MaxRecords}

RuleInit ==
    /\ ids \in SeqsUpTo(RuleIds, MaxIds)
    /\ alertsClient \in BOOLEAN
    /\ \E n \in [RuleIds -> InitCounts] : store = [r \in RuleIds |-> 1..n[r]]
    /\ writes = 0
    /\ pc = "idle"
    /\ calls = <<>>
    /\ fetch = <<>>
    /\ acc = <<>>
    /\ response = NoResponse

\* if (!alertsClient) return headers.response().code(404)
HandlerNoAlertsClient ==
    /\ pc = "idle"
    /\ ~alertsClient
    /\ pc' = "done"
    /\ response' = notFoundResponse
    /\ UNCHANGED <<ids, alertsClient, store, writes, calls, fetch, acc>>
    /\ UNCHANGED annVars

\* query.ids.reduce(...): every callback runs up to its first await, so every
\* find is issued, in the order of query.ids, before anything completes.
HandlerReduce ==
    /\ pc = "idle"
    /\ alertsClient
    /\ calls' = ids
    /\ fetch' = [i \in 1..Len(ids) |-> Pending]
    /\ acc' = drain([i \in 0..Len(ids) |-> IF i = 0 THEN Fulfilled(EmptyMap) ELSE Pending],
                    ids, fetch')
    /\ response' = awaitStatuses(acc'[Len(ids)], response)
    /\ pc' = IF response' = NoResponse THEN "awaiting" ELSE "done"
    /\ UNCHANGED <<ids, alertsClient, store, writes>>
    /\ UNCHANGED annVars

\* the find of the i-th element resolves with what the store holds now
FindResolves(i) ==
    /\ pc # "idle"
    /\ i \in DOMAIN fetch
    /\ fetch[i].st = "pending"
    /\ fetch' = [fetch EXCEPT ![i] = Fulfilled(find(store, ids[i]))]
    /\ acc' = drain(acc, ids, fetch')
    /\ response' = awaitStatuses(acc'[Len(ids)], response)
    /\ pc' = IF response' = NoResponse THEN "awaiting" ELSE "done"
    /\ UNCHANGED <<ids, alertsClient, store, writes, calls>>
    /\ UNCHANGED annVars

\* the find of the i-th element rejects
FindRejects(i, e) ==
    /\ pc # "idle"
    /\ i \in DOMAIN fetch
    /\ fetch[i].st = "pending"
    /\ fetch' = [fetch EXCEPT ![i] = Rejected(e)]
    /\ acc' = drain(acc, ids, fetch')
    /\ response' = awaitStatuses(acc'[Len(ids)], response)
    /\ pc' = IF response' = NoResponse THEN "awaiting" ELSE "done"
    /\ UNCHANGED <<ids, alertsClient, store, writes, calls>>
    /\ UNCHANGED annVars

\* a rule execution writes a newer status record while finds are in flight
StoreWrite(r) ==
    /\ pc = "awaiting"
    /\ writes < MaxWrites
    /\ writes' = writes + 1
    /\ store' = [store EXCEPT ![r] = @ \cup {Cardinality(@) + 1}]
    /\ UNCHANGED <<ids, alertsClient, pc, calls, fetch, acc, response>>
    /\ UNCHANGED annVars

RuleNext ==
    \/ HandlerNoAlertsClient
    \/ HandlerReduce
    \/ \E i \in 1..MaxIds : FindResolves(i)
    \/ \E i \in 1..MaxIds, e \in StoreErrors : FindRejects(i, e)
    \/ \E r \in RuleIds : StoreWrite(r)

(***************************************************************************)
(* Annotation routes: values                                               *)
(***************************************************************************)
ANNOTATION_USER_UNKNOWN == "<user unknown>"

EmptyObject == <<>>

AnnotationBodies ==
    { [job_id |-> "job-1", annotation |-> "first"],
      [job_id |-> "job-2", annotation |-> "second"] }

SearchBodies ==
    { [jobIds |-> <<"job-1">>, maxAnnotations |-> 10],
      [jobIds |-> <<"job-1", "job-2">>, maxAnnotations |-> 500] }

AnnotationIds == {"ann-1", "ann-2"}

\* what securityPlugin.authc.getCurrentUser(request) can return
CurrentUsers ==
    { Null,
      [roles |-> <<>>],
      [username |-> ""],
      [username |-> "alice"],
      [username |-> "bob"] }

ServiceResults == { [success |-> TRUE], [acknowledged |-> TRUE, hits |-> 2] }

\* errors a delegate can throw: a Boom, an error with a status, a plain Error
DelegateErrors ==
    { [isBoom |-> TRUE, message |-> "Forbidden", statusCode |-> 403],
      [isBoom |-> FALSE, message |-> "index_not_found_exception", status |-> 404],
      [isBoom |-> FALSE, message |-> "connect ECONNREFUSED"] }

\* Boom.badRequest(i18n.translate(...))
getAnnotationsFeatureUnavailableErrorMessage ==
    [isBoom |-> TRUE,
     message |-> "Index and aliases required for the annotations feature have not been created or are not accessible for the current user.",
     statusCode |-> 400]

\* wrapError: the error as a Boom, with the Boom's status code
wrapError(e) ==
    LET code == IF e.isBoom THEN e.statusCode
                ELSE IF "status" \in DOMAIN e THEN e.status
                ELSE 500
    IN [body |-> [message |-> e.message, statusCode |-> code], statusCode |-> code]

\* response.ok({ body: resp })
ok(resp) == [kind |-> "ok", body |-> resp]

\* response.customError(...)
customError(wrapped) == [kind |-> "customError"] @@ wrapped

\* variant: the error leaves the handler
catchRethrows(e) == [kind |-> "uncaught", error |-> e]

\* catch (e) { return response.customError(wrapError(e)); }
catch(e) == customError(wrapError(e))

\* variant: the result of the feature check is not tested
featureCheckIgnored(available) == FALSE

\* if (annotationsFeatureAvailable === false) throw ...
featureUnavailable(available) == available = FALSE

\* variant: an empty username is passed on as it is
actingUsernameNoFallback(current) ==
    LET user == IF current = Null THEN EmptyObject ELSE current
    IN IF "username" \in DOMAIN user THEN user.username ELSE ANNOTATION_USER_UNKNOWN

\* const user = getCurrentUser(request) || {};  user.username || ANNOTATION_USER_UNKNOWN
actingUsername(current) ==
    LET user == IF current = Null THEN EmptyObject ELSE current
    IN IF "username" \in DOMAIN user /\ user.username # ""
       THEN user.username
       ELSE ANNOTATION_USER_UNKNOWN

\* how the steps of a request are recorded
featureOutcome(available) == IF available THEN "available" ELSE "unavailable"

UserLookupThrew == [threw |-> TRUE]

NoSteps == [feature |-> "unchecked", user |-> Undefined, thrown |-> Undefined,
            returned |-> Undefined]

(***************************************************************************)
(* Annotation routes: state machine                                        *)
(***************************************************************************)
AnnInit ==
    /\ aPc = "idle"
    /\ aReq = [route |-> "none"]
    /\ aSteps = NoSteps
    /\ aCalls = <<>>
    /\ aResponses = <<>>

\* POST /api/ml/annotations: getAnnotations(request.body) is called at once
SearchRequest(body) ==
    /\ aPc = "idle"
    /\ aReq' = [route |-> "search", arg |-> body]
    /\ aCalls' = Append(aCalls, [op |-> "getAnnotations", args |-> <<body>>])
    /\ aPc' = "calling"
    /\ UNCHANGED <<aSteps, aResponses>>
    /\ UNCHANGED ruleVars

\* PUT /api/ml/annotations/index: the feature check is awaited first
UpsertRequest(body) ==
    /\ aPc = "idle"
    /\ aReq' = [route |-> "upsert", arg |-> body]
    /\ aPc' = "checking"
    /\ UNCHANGED <<aSteps, aCalls, aResponses>>
    /\ UNCHANGED ruleVars

\* DELETE /api/ml/annotations/delete/{annotationId}: the feature check is
\* awaited first
DeleteRequest(annotationId) ==
    /\ aPc = "idle"
    /\ aReq' = [route |-> "delete", arg |-> annotationId]
    /\ aPc' = "checking"
    /\ UNCHANGED <<aSteps, aCalls, aResponses>>
    /\ UNCHANGED ruleVars

\* isAnnotationsFeatureAvailable rejects
FeatureCheckThrows(e) ==
    /\ aPc = "checking"
    /\ aSteps' = [aSteps EXCEPT !.feature = "threw", !.thrown = e]
    /\ aResponses' = Append(aResponses, catch(e))
    /\ aPc' = "done"
    /\ UNCHANGED <<aReq, aCalls>>
    /\ UNCHANGED ruleVars

\* isAnnotationsFeatureAvailable resolves; upsert handler continues
UpsertFeatureChecked(available, current) ==
    /\ aPc = "checking"
    /\ aReq.route = "upsert"
    /\ IF featureUnavailable(available)
       THEN /\ aSteps' = [aSteps EXCEPT !.feature = featureOutcome(available),
                                        !.thrown = getAnnotationsFeatureUnavailableErrorMessage]
            /\ aResponses' = Append(aResponses, catch(getAnnotationsFeatureUnavailableErrorMessage))
            /\ aPc' = "done"
            /\ UNCHANGED aCalls
       ELSE /\ aSteps' = [aSteps EXCEPT !.feature = featureOutcome(available), !.user = current]
            /\ aCalls' = Append(aCalls, [op |-> "indexAnnotation",
                                         args |-> <<aReq.arg, actingUsername(current)>>])
            /\ aPc' = "calling"
            /\ UNCHANGED aResponses
    /\ UNCHANGED aReq
    /\ UNCHANGED ruleVars

\* the feature check passes and getCurrentUser throws
UpsertUserThrows(e) ==
    /\ aPc = "checking"
    /\ aReq.route = "upsert"
    /\ aSteps' = [aSteps EXCEPT !.feature = featureOutcome(TRUE), !.user = UserLookupThrew, !.thrown = e]
    /\ aResponses' = Append(aResponses, catch(e))
    /\ aPc' = "done"
    /\ UNCHANGED <<aReq, aCalls>>
    /\ UNCHANGED ruleVars

\* isAnnotationsFeatureAvailable resolves; delete handler continues
DeleteFeatureChecked(available) ==
    /\ aPc = "checking"
    /\ aReq.route = "delete"
    /\ IF featureUnavailable(available)
       THEN /\ aSteps' = [aSteps EXCEPT !.feature = featureOutcome(available),
                                        !.thrown = getAnnotationsFeatureUnavailableErrorMessage]
            /\ aResponses' = Append(aResponses, catch(getAnnotationsFeatureUnavailableErrorMessage))
            /\ aPc' = "done"
            /\ UNCHANGED aCalls
       ELSE /\ aSteps' = [aSteps EXCEPT !.feature = featureOutcome(available)]
            /\ aCalls' = Append(aCalls, [op |-> "deleteAnnotation", args |-> <<aReq.arg>>])
            /\ aPc' = "calling"
            /\ UNCHANGED aResponses
    /\ UNCHANGED aReq
    /\ UNCHANGED ruleVars

\* the annotation service resolves
ServiceReturns(resp) ==
    /\ aPc = "calling"
    /\ aSteps' = [aSteps EXCEPT !.returned = resp]
    /\ aResponses' = Append(aResponses, ok(resp))
    /\ aPc' = "done"
    /\ UNCHANGED <<aReq, aCalls>>
    /\ UNCHANGED ruleVars

\* the annotation service rejects
ServiceThrows(e) ==
    /\ aPc = "calling"
    /\ aSteps' = [aSteps EXCEPT !.thrown = e]
    /\ aResponses' = Append(aResponses, catch(e))
    /\ aPc' = "done"
    /\ UNCHANGED <<aReq, aCalls>>
    /\ UNCHANGED ruleVars

AnnNext ==
    \/ \E b \in SearchBodies : SearchRequest(b)
    \/ \E b \in AnnotationBodies : UpsertRequest(b)
    \/ \E a \in AnnotationIds : DeleteRequest(a)
    \/ \E e \in DelegateErrors : FeatureCheckThrows(e)
    \/ \E available \in BOOLEAN, u \in CurrentUsers : UpsertFeatureChecked(available, u)
    \/ \E e \in DelegateErrors : UpsertUserThrows(e)
    \/ \E available \in BOOLEAN : DeleteFeatureChecked(available)
    \/ \E r \in ServiceResults : ServiceReturns(r)
    \/ \E e \in DelegateErrors : ServiceThrows(e)

\* no lookup request in flight
RuleQuiet ==
    /\ ids = <<>>
    /\ alertsClient = TRUE
    /\ store = [r \in RuleIds |-> {}]
    /\ writes = 0
    /\ pc = "idle"
    /\ calls = <<>>
    /\ fetch = <<>>
    /\ acc = <<>>
    /\ response = NoResponse

Init == RuleInit /\ AnnInit

Next == RuleNext

\* the rule-status lookup
Spec == Init /\ [][Next]_vars

AnnSpecInit == RuleQuiet /\ AnnInit

\* the annotation routes
AnnSpec == AnnSpecInit /\ [][AnnNext]_vars

(***************************************************************************)
(* Rule-status lookup: properties                                          *)
(***************************************************************************)
Started == pc # "idle" /\ alertsClient

AllResolved == \A i \in DOMAIN fetch : fetch[i].st = "fulfilled"

SomeRejected == \E i \in DOMAIN fetch : fetch[i].st = "rejected"

\* i is the last position of query.ids that holds ids[i]
LastOccurrence(i) == \A j \in DOMAIN ids : ids[j] = ids[i] => j <= i

\* the last position whose find was rejected
LastRejected ==
    CHOOSE i \in DOMAIN fetch :
        /\ fetch[i].st = "rejected"
        /\ \A j \in DOMAIN fetch : fetch[j].st = "rejected" => j <= i

\* C1: when every per-id find succeeds the handler returns a mapping whose
\* keys are exactly the distinct ids of query.ids (also for an empty
\* query.ids and for duplicated ids), in every completion order.
C1_KeysAreDistinctIds ==
    /\ (Started /\ AllResolved) => response.kind = "ok"
    /\ response.kind = "ok" => DOMAIN response.body = Range(ids)

C1_Witness ==
    /\ response.kind = "ok"
    /\ ids = <<"rule-1", "rule-2", "rule-1">>
    /\ Cardinality(DOMAIN response.body) = 2

\* C2: in a successful lookup the entry of an id has as current_status the
\* (snake-cased) record at position 0 of what find returned for it and as
\* failures the records at positions 1..perPage-1 in the same order, newest
\* first: at most perPage-1 of them, none of them the current record.
C2_Partition ==
    response.kind = "ok" =>
        \A i \in DOMAIN ids : LastOccurrence(i) =>
            LET so == fetch[i].value.saved_objects
                e == response.body[ids[i]]
            IN /\ Len(so) <= perPage
               /\ Len(so) >= 1 =>
                    e.current_status = convertToSnakeCase(so[1].attributes)
               /\ Len(e.failures) = (IF Len(so) = 0 THEN 0 ELSE Len(so) - 1)
               /\ Len(e.failures) <= perPage - 1
               /\ \A k \in 1..Len(e.failures) :
                    /\ e.failures[k] = convertToSnakeCase(so[k + 1].attributes)
                    /\ e.failures[k] # e.current_status
                    /\ e.failures[k].status_date < e.current_status.status_date
                    /\ k > 1 => e.failures[k].status_date < e.failures[k - 1].status_date

C2_Witness ==
    /\ response.kind = "ok"
    /\ \E i \in DOMAIN ids :
          /\ Cardinality(store[ids[i]]) > perPage
          /\ Len(response.body[ids[i]].failures) = perPage - 1
          /\ response.body[ids[i]].current_status.status_date
               = Cardinality(store[ids[i]])

\* C3: an id whose find succeeds with no record still has its entry, with
\* current_status null and failures empty, and the lookup does not fail.
C3_EmptyEntry ==
    /\ (Started /\ AllResolved) => response.kind = "ok"
    /\ response.kind = "ok" =>
          \A i \in DOMAIN ids :
              (LastOccurrence(i) /\ fetch[i].value.saved_objects = <<>>) =>
                  /\ ids[i] \in DOMAIN response.body
                  /\ response.body[ids[i]].current_status \in {Null, Undefined}
                  /\ response.body[ids[i]].failures = <<>>
                  /\ DOMAIN response.body[ids[i]] = {"current_status", "failures"}

C3_Witness ==
    /\ response.kind = "ok"
    /\ Len(ids) >= 2
    /\ \E i \in DOMAIN ids : fetch[i].value.saved_objects = <<>>
    /\ \E i \in DOMAIN ids : fetch[i].value.saved_objects # <<>>

\* C4: once a find has been rejected the handler never returns a mapping;
\* what it returns is { message, status_code } of a rejected find's error,
\* with the HTTP code equal to status_code and no entry of any id.
C4_AllOrNothing ==
    SomeRejected =>
        /\ response.kind \in {"none", "error"}
        /\ pc = "done" => response.kind = "error"
        /\ response.kind = "error" =>
              /\ DOMAIN response.body = {"message", "status_code"}
              /\ response.code = response.body.status_code
              /\ \E i \in DOMAIN fetch :
                    /\ fetch[i].st = "rejected"
                    /\ response.body.message = fetch[i].err.message
                    /\ response.body.status_code = transformError(fetch[i].err).statusCode

C4_Witness ==
    /\ response.kind = "error"
    /\ response.code = 404
    /\ \E i, j \in DOMAIN fetch :
          /\ i < j
          /\ fetch[i].st = "rejected"
          /\ fetch[j].st = "fulfilled"
          /\ acc[j].st = "rejected"

\* the mapping a fixed store determines for query.ids
ExpectedStatuses(idSeq, st) ==
    [id \in Range(idSeq) |-> statusEntry(find(st, id))]

\* C8: an id's entry is in a promise's mapping only once the id's own find
\* has completed; a mapping is returned only when the find of every element
\* has completed and its entry is in the mapping; with the store unchanged
\* the returned mapping is a function of query.ids and the store alone.
C8_CommitAfterFetch ==
    /\ \A i \in DOMAIN acc : acc[i].st = "fulfilled" =>
          /\ \A j \in 1..i : fetch[j].st = "fulfilled"
          /\ DOMAIN acc[i].value = {ids[j] : j \in 1..i}
    /\ response.kind = "ok" =>
          /\ AllResolved
          /\ response.body = acc[Len(ids)].value
          /\ \A i \in DOMAIN ids : ids[i] \in DOMAIN response.body
          /\ writes = 0 => response.body = ExpectedStatuses(ids, store)

C8_Witness ==
    /\ response.kind = "ok"
    /\ writes = 0
    /\ Len(ids) = MaxIds
    /\ Cardinality(Range(ids)) = 2

\* C9: exactly one find per element of query.ids, in order, each for one id,
\* none repeated after a rejection; the entry of a duplicated id is the one
\* built from the find of its last occurrence.
C9_OneFetchPerElement ==
    /\ Started => (calls = ids /\ DOMAIN fetch = DOMAIN ids)
    /\ ~Started => calls = <<>>
    /\ response.kind = "ok" =>
          \A i \in DOMAIN ids : LastOccurrence(i) =>
              response.body[ids[i]] = statusEntry(fetch[i].value)

C9_Witness ==
    /\ response.kind = "ok"
    /\ \E i, j \in DOMAIN ids :
          /\ i < j
          /\ ids[i] = ids[j]
          /\ LastOccurrence(j)
          /\ fetch[i].value # fetch[j].value
          /\ response.body[ids[j]] = statusEntry(fetch[j].value)

C10_ErrorIsLastRejected ==
    response.kind = "error" => response = errorResponse(fetch[LastRejected].err)

\* C10: the error returned is that of the rejected find that comes last in
\* query.ids, whatever the completion order, and a response once returned
\* is never replaced.
C10_LastFailingIdWins ==
    /\ [](C10_ErrorIsLastRejected)
    /\ [][response # NoResponse => response' = response]_vars

C10_Witness ==
    /\ response.kind = "error"
    /\ \E i, j \in DOMAIN fetch :
          /\ i < j
          /\ fetch[i].st = "rejected"
          /\ fetch[j].st = "rejected"
          /\ fetch[i].err # fetch[j].err
          /\ response.body.message = fetch[j].err.message

(***************************************************************************)
(* Annotation routes: properties                                           *)
(***************************************************************************)
FeatureUnavailableResponse ==
    [kind |-> "customError",
     statusCode |-> 400,
     body |-> [message |-> getAnnotationsFeatureUnavailableErrorMessage.message,
               statusCode |-> 400]]

\* C5: in upsert and delete the service is invoked only after the feature
\* check has returned something other than false; when it returns false the
\* request ends with the fixed 400 "feature unavailable" error, whatever the
\* request holds, and the service is not invoked.
C5_FeatureGate ==
    aReq.route \in {"upsert", "delete"} =>
        /\ aCalls # <<>> => aSteps.feature = "available"
        /\ aSteps.feature = "unavailable" =>
              /\ aPc = "done"
              /\ aCalls = <<>>
              /\ aResponses = <<FeatureUnavailableResponse>>

C5_Witness ==
    /\ aReq.route = "delete"
    /\ aReq.arg = "ann-2"
    /\ aSteps.feature = "unavailable"
    /\ aPc = "done"

HasUsername(u) == u # Null /\ "username" \in DOMAIN u /\ u.username # ""

\* C6: an upsert whose feature check passed and whose user lookup returned
\* invokes indexAnnotation exactly once with the request body and, as acting
\* user, the resolved non-empty username, else ANNOTATION_USER_UNKNOWN; a
\* missing user alone does not make the request fail.
C6_ActingUser ==
    (aReq.route = "upsert" /\ aSteps.feature = "available" /\ aSteps.user # UserLookupThrew) =>
        /\ aCalls = << [op |-> "indexAnnotation",
                        args |-> << aReq.arg,
                                    IF HasUsername(aSteps.user)
                                    THEN aSteps.user.username
                                    ELSE ANNOTATION_USER_UNKNOWN >>] >>
        /\ (aPc = "done" /\ aSteps.thrown = Undefined) =>
              aResponses = << [kind |-> "ok", body |-> aSteps.returned] >>

C6_Witness ==
    /\ aReq.route = "upsert"
    /\ aSteps.user = Null
    /\ aPc = "done"
    /\ aResponses[1].kind = "ok"
    /\ aCalls[1].args[2] = ANNOTATION_USER_UNKNOWN

\* C7: every request of the three handlers ends with exactly one response:
\* ok with the service's result when nothing threw, else the wrapped error
\* of what was thrown as a customError; the service is invoked at most once.
C7_OneResponse ==
    /\ Len(aResponses) <= 1
    /\ Len(aCalls) <= 1
    /\ (aPc = "done") <=> (Len(aResponses) = 1)
    /\ aPc = "done" =>
          IF aSteps.thrown = Undefined
          THEN /\ aSteps.returned \in ServiceResults
               /\ Len(aCalls) = 1
               /\ aResponses[1] = [kind |-> "ok", body |-> aSteps.returned]
          ELSE /\ aSteps.returned = Undefined
               /\ aResponses[1].kind = "customError"
               /\ aResponses[1].body.message = aSteps.thrown.message
               /\ aResponses[1].statusCode = wrapError(aSteps.thrown).statusCode

C7_Witness ==
    /\ aPc = "done"
    /\ aReq.route = "search"
    /\ aSteps.thrown \in DelegateErrors
    /\ ~aSteps.thrown.isBoom
    /\ Len(aCalls) = 1
    /\ aResponses[1].kind = "customError"

====
